---- MODULE Spec2Model ----
(***************************************************************************)
(* Model of the RAG subsystem of MyPaperAgent: the text chunker            *)
(* (src/rag/chunker.py), the vector store (src/rag/vector_store.py), the   *)
(* retriever (src/rag/retriever.py) and the paper table they index         *)
(* (src/core/paper_manager.py).                                            *)
(*                                                                         *)
(* Text is modelled by its structure.  A word is the number of tokens the  *)
(* tokenizer gives it, a sentence is a sequence of words, a paragraph is a *)
(* sequence of sentences and a raw text is a sequence of blocks separated  *)
(* by blank lines, a block being a paragraph or blank (<<>>).              *)
(***************************************************************************)
EXTENDS Integers, Sequences, FiniteSets, TLC

VARIABLES
    config,           \* Config: chunk_size, chunk_overlap (environment driven)
    para_sep_tokens,  \* tokens the encoding spends on one "\n\n" separator
    ctor_args,        \* arguments TextChunker was constructed with
    chunker,          \* TextChunker: chunk_size, chunk_overlap
    text,             \* argument of the chunk_text call
    chunks,           \* result of the chunk_text call
    pc,               \* "ready" before the chunk_text call, "done" after
    papers,           \* Paper table: id -> row, or NoPaper
    store,            \* the Chroma collection: a set of records
    last,             \* what the last call did and returned
    embedder,         \* EmbeddingGenerator: provider
    callers           \* index_paper calls under way: caller -> position and locals

vars == <<config, para_sep_tokens, ctor_args, chunker, text, chunks, pc,
          papers, store, last, embedder, callers>>

----------------------------------------------------------------------------
(* Bounds of the model *)

MaxParas == 3
MaxChunkSize == 3
MaxOverlap == 2
MaxPapers == 2
MaxResults == 2

(* Program constants *)

DefaultChunkSize == 800
DefaultChunkOverlap == 100
max_paragraphs == 2

None == -1

----------------------------------------------------------------------------
(* Sequences *)

RECURSIVE SumSeq(_)
SumSeq(s) == IF s = <<>> THEN 0 ELSE Head(s) + SumSeq(Tail(s))

RECURSIVE Flatten(_)
Flatten(ss) == IF ss = <<>> THEN <<>> ELSE Head(ss) \o Flatten(Tail(ss))

Last(s) == s[Len(s)]

----------------------------------------------------------------------------
(* Strings.  A string is [sep, level, parts, carry]: the parts joined by   *)
(* sep ("\n\n" or " ").  Every part is paragraph shaped (a sequence of     *)
(* sentences); level tells whether the parts are paragraphs, sentences or  *)
(* words.  carry is a history field: the number of leading parts that      *)
(* repeat the tail of the previous chunk.                                  *)

ParaText(p) == [sep |-> " ", level |-> "paragraph", parts |-> <<p>>, carry |-> 0]
SentenceText(s) == [sep |-> " ", level |-> "sentence", parts |-> << <<s>> >>, carry |-> 0]
WordText(w) == [sep |-> " ", level |-> "word", parts |-> << << <<w>> >> >>, carry |-> 0]

\* "\n\n".join(current_chunk)
JoinParagraphs(current_chunk, carry) ==
    [sep |-> "\n\n", level |-> "paragraph", parts |-> current_chunk, carry |-> carry]

\* " ".join(current_chunk) over sentences
JoinSentences(current_chunk) ==
    [sep |-> " ", level |-> "sentence",
     parts |-> [i \in 1..Len(current_chunk) |-> <<current_chunk[i]>>], carry |-> 0]

\* " ".join(temp_chunk) over words
JoinWords(temp_chunk) ==
    [sep |-> " ", level |-> "word",
     parts |-> [i \in 1..Len(temp_chunk) |-> << <<temp_chunk[i]>> >>], carry |-> 0]

WordsOfParagraph(p) == Flatten(p)
WordsOfParts(parts) == Flatten([i \in 1..Len(parts) |-> WordsOfParagraph(parts[i])])

(* len(encoding.encode(text)).  A word keeps its tokens when a space joins *)
(* it to its neighbours (the space goes into the following word's first    *)
(* token); a "\n\n" separator is a token of its own unless it merges with  *)
(* closing punctuation of the paragraph before it (para_sep_tokens).       *)
_count_tokens(t) ==
    SumSeq(WordsOfParts(t.parts))
    + (IF t.sep = "\n\n" /\ Len(t.parts) > 1
       THEN para_sep_tokens * (Len(t.parts) - 1) ELSE 0)

----------------------------------------------------------------------------
(* TextChunker *)

Falsy(x) == x = None \/ x = 0

\* TextChunker.__init__: `chunk_size or config.chunk_size`
TextChunkerInit(chunk_size, chunk_overlap, cfg) ==
    [chunk_size    |-> IF Falsy(chunk_size) THEN cfg.chunk_size ELSE chunk_size,
     chunk_overlap |-> IF Falsy(chunk_overlap) THEN cfg.chunk_overlap ELSE chunk_overlap]

\* _split_into_paragraphs: split on blank lines, drop the empty pieces
_split_into_paragraphs(t) == SelectSeq(t, LAMBDA p: p # <<>>)

\* _create_chunk
_create_chunk(t, index, metadata) ==
    [text |-> t, index |-> index, token_count |-> _count_tokens(t),
     metadata |-> metadata]

\* faulty variant of NextIndex: indices counted from 1
NextIndexOneBased(cs) == Len(cs) + 1

\* the index given to the next chunk: len(chunks)
NextIndex(cs) == Len(cs)

----------------------------------------------------------------------------
(* _chunk_by_tokens: an oversized paragraph, packed by sentence and, for a *)
(* sentence that alone exceeds chunk_size, by word.                        *)

\* faulty variant of WordStep: the words packed so far are not saved when
\* the budget is reached
WordStepDropsPending(st, word, chunk_size) ==
    LET word_tokens == _count_tokens(WordText(word)) IN
    IF st.temp_tokens + word_tokens > chunk_size
    THEN [chunks      |-> st.chunks,
          temp_chunk  |-> <<word>>,
          temp_tokens |-> word_tokens]
    ELSE [chunks      |-> st.chunks,
          temp_chunk  |-> Append(st.temp_chunk, word),
          temp_tokens |-> st.temp_tokens + word_tokens]

\* the word loop, lines 166-175: state [chunks, temp_chunk, temp_tokens]
WordStep(st, word, chunk_size) ==
    LET word_tokens == _count_tokens(WordText(word)) IN
    IF st.temp_tokens + word_tokens > chunk_size
    THEN [chunks      |-> IF st.temp_chunk # <<>>
                          THEN Append(st.chunks, JoinWords(st.temp_chunk))
                          ELSE st.chunks,
          temp_chunk  |-> <<word>>,
          temp_tokens |-> word_tokens]
    ELSE [chunks      |-> st.chunks,
          temp_chunk  |-> Append(st.temp_chunk, word),
          temp_tokens |-> st.temp_tokens + word_tokens]

RECURSIVE WordLoop(_, _, _)
WordLoop(st, words, chunk_size) ==
    IF words = <<>> THEN st
    ELSE WordLoop(WordStep(st, Head(words), chunk_size), Tail(words), chunk_size)

\* lines 161-178: split one oversized sentence by words
SplitByWords(cs, sentence, chunk_size) ==
    LET words == sentence
        end   == WordLoop([chunks |-> cs, temp_chunk |-> <<>>, temp_tokens |-> 0],
                          words, chunk_size)
    IN IF end.temp_chunk # <<>>
       THEN Append(end.chunks, JoinWords(end.temp_chunk))
       ELSE end.chunks

\* the sentence loop, lines 151-190: state [chunks, current_chunk, current_tokens]
SentenceStep(st, sentence, chunk_size) ==
    LET sentence_tokens == _count_tokens(SentenceText(sentence))
        saved == IF st.current_chunk # <<>>
                 THEN Append(st.chunks, JoinSentences(st.current_chunk))
                 ELSE st.chunks
    IN
    IF sentence_tokens > chunk_size
    THEN [chunks         |-> SplitByWords(saved, sentence, chunk_size),
          current_chunk  |-> <<>>,
          current_tokens |-> IF st.current_chunk # <<>> THEN 0 ELSE st.current_tokens]
    ELSE IF st.current_tokens + sentence_tokens > chunk_size
    THEN [chunks         |-> saved,
          current_chunk  |-> <<sentence>>,
          current_tokens |-> sentence_tokens]
    ELSE [chunks         |-> st.chunks,
          current_chunk  |-> Append(st.current_chunk, sentence),
          current_tokens |-> st.current_tokens + sentence_tokens]

RECURSIVE SentenceLoop(_, _, _)
SentenceLoop(st, sentences, chunk_size) ==
    IF sentences = <<>> THEN st
    ELSE SentenceLoop(SentenceStep(st, Head(sentences), chunk_size),
                      Tail(sentences), chunk_size)

_chunk_by_tokens(paragraph, chunk_size) ==
    LET sentences == paragraph
        end == SentenceLoop([chunks |-> <<>>, current_chunk |-> <<>>,
                             current_tokens |-> 0], sentences, chunk_size)
    IN IF end.current_chunk # <<>>
       THEN Append(end.chunks, JoinSentences(end.current_chunk))
       ELSE end.chunks

----------------------------------------------------------------------------
(* chunk_text *)

\* lines 74-75: every sub-chunk becomes a chunk
RECURSIVE AppendSubChunks(_, _, _)
AppendSubChunks(cs, sub_chunks, metadata) ==
    IF sub_chunks = <<>> THEN cs
    ELSE AppendSubChunks(
             Append(cs, _create_chunk(Head(sub_chunks), NextIndex(cs), metadata)),
             Tail(sub_chunks), metadata)

\* lines 66-70, 83-85, 111-113: save the current chunk if it has content
SaveCurrent(st, metadata) ==
    IF st.current_chunk # <<>>
    THEN Append(st.chunks,
                _create_chunk(JoinParagraphs(st.current_chunk, st.carry),
                              NextIndex(st.chunks), metadata))
    ELSE st.chunks

\* faulty variant of OverlapSeed: the last paragraph is carried over whatever
\* its size against chunk_overlap
OverlapSeedAnySize(current_chunk, para_tokens, ck) ==
    LET overlap_text   == Last(current_chunk)
        overlap_tokens == _count_tokens(ParaText(overlap_text))
    IN IF /\ ck.chunk_overlap > 0
          /\ overlap_tokens + para_tokens <= ck.chunk_size
       THEN [current_chunk |-> <<overlap_text>>, current_tokens |-> overlap_tokens,
             carry |-> 1]
       ELSE [current_chunk |-> <<>>, current_tokens |-> 0, carry |-> 0]

\* lines 87-104: the buffer the next chunk starts with
OverlapSeed(current_chunk, para_tokens, ck) ==
    LET overlap_text   == Last(current_chunk)
        overlap_tokens == _count_tokens(ParaText(overlap_text))
    IN IF /\ ck.chunk_overlap > 0
          /\ overlap_tokens <= ck.chunk_overlap
          /\ overlap_tokens + para_tokens <= ck.chunk_size
       THEN [current_chunk |-> <<overlap_text>>, current_tokens |-> overlap_tokens,
             carry |-> 1]
       ELSE [current_chunk |-> <<>>, current_tokens |-> 0, carry |-> 0]

\* faulty variant of MustFlush: no cap on the paragraphs of a chunk
MustFlushOnTokensOnly(st, para_tokens, ck) ==
    /\ st.current_chunk # <<>>
    /\ st.current_tokens + para_tokens > ck.chunk_size

\* faulty variant of MustFlush: the chunk is closed only above the cap
MustFlushAboveCap(st, para_tokens, ck) ==
    /\ st.current_chunk # <<>>
    /\ \/ st.current_tokens + para_tokens > ck.chunk_size
       \/ Len(st.current_chunk) > max_paragraphs

\* lines 78-82: the current chunk is closed before this paragraph is added
MustFlush(st, para_tokens, ck) ==
    /\ st.current_chunk # <<>>
    /\ \/ st.current_tokens + para_tokens > ck.chunk_size
       \/ Len(st.current_chunk) >= max_paragraphs

\* faulty variant of ParagraphStep: an oversized paragraph is emitted while
\* the pending buffer is kept for the paragraphs after it
ParagraphStepKeepsBuffer(st, paragraph, ck, metadata) ==
    LET para_tokens == _count_tokens(ParaText(paragraph)) IN
    IF para_tokens > ck.chunk_size
    THEN [chunks         |-> AppendSubChunks(st.chunks,
                                 _chunk_by_tokens(paragraph, ck.chunk_size), metadata),
          current_chunk  |-> st.current_chunk,
          current_tokens |-> st.current_tokens,
          carry          |-> st.carry]
    ELSE IF MustFlush(st, para_tokens, ck)
    THEN LET seed == OverlapSeed(st.current_chunk, para_tokens, ck) IN
         [chunks         |-> SaveCurrent(st, metadata),
          current_chunk  |-> Append(seed.current_chunk, paragraph),
          current_tokens |-> seed.current_tokens + para_tokens,
          carry          |-> seed.carry]
    ELSE [chunks         |-> st.chunks,
          current_chunk  |-> Append(st.current_chunk, paragraph),
          current_tokens |-> st.current_tokens + para_tokens,
          carry          |-> st.carry]

\* one pass of the loop over paragraphs, lines 60-108:
\* state [chunks, current_chunk, current_tokens, carry]
ParagraphStep(st, paragraph, ck, metadata) ==
    LET para_tokens == _count_tokens(ParaText(paragraph)) IN
    IF para_tokens > ck.chunk_size
    THEN [chunks         |-> AppendSubChunks(SaveCurrent(st, metadata),
                                 _chunk_by_tokens(paragraph, ck.chunk_size), metadata),
          current_chunk  |-> <<>>,
          current_tokens |-> IF st.current_chunk # <<>> THEN 0 ELSE st.current_tokens,
          carry          |-> IF st.current_chunk # <<>> THEN 0 ELSE st.carry]
    ELSE IF MustFlush(st, para_tokens, ck)
    THEN LET seed == OverlapSeed(st.current_chunk, para_tokens, ck) IN
         [chunks         |-> SaveCurrent(st, metadata),
          current_chunk  |-> Append(seed.current_chunk, paragraph),
          current_tokens |-> seed.current_tokens + para_tokens,
          carry          |-> seed.carry]
    ELSE [chunks         |-> st.chunks,
          current_chunk  |-> Append(st.current_chunk, paragraph),
          current_tokens |-> st.current_tokens + para_tokens,
          carry          |-> st.carry]

RECURSIVE ParagraphLoop(_, _, _, _)
ParagraphLoop(st, paragraphs, ck, metadata) ==
    IF paragraphs = <<>> THEN st
    ELSE ParagraphLoop(ParagraphStep(st, Head(paragraphs), ck, metadata),
                       Tail(paragraphs), ck, metadata)

chunk_text(ck, t, metadata) ==
    LET paragraphs == _split_into_paragraphs(t)
        end == ParagraphLoop([chunks |-> <<>>, current_chunk |-> <<>>,
                              current_tokens |-> 0, carry |-> 0],
                             paragraphs, ck, metadata)
    IN SaveCurrent(end, metadata)

----------------------------------------------------------------------------
(* Inputs *)

\* paragraphs: one word, a two-token word, two sentences, a long sentence
\* before and after a short one
Paragraphs ==
    { << <<1>> >>, << <<2>> >>, << <<1>>, <<1>> >>,
      << <<2, 1>>, <<1>> >>, << <<1>>, <<2, 1>> >> }

Blank == <<>>

\* re.split(r"\n\s*\n") leaves an empty piece only at the start or the end
Texts ==
    UNION { { t \in [1..n -> Paragraphs \cup {Blank}] :
                \A i \in 2..(n - 1) : t[i] # Blank } : n \in 0..MaxParas }

\* three paragraphs of 10 tokens each
TenTokenText == << << <<4, 6>> >>, << <<5, 5>> >>, << <<6, 4>> >> >>

ArgChunkSizes == {None} \cup (1..MaxChunkSize) \cup {1000}
\* 9 and 10: just below and at the size of a ten-token paragraph
ArgOverlaps == {None} \cup (0..MaxOverlap) \cup {9, 10}

Configs == [chunk_size : {DefaultChunkSize}, chunk_overlap : {0, DefaultChunkOverlap}]

EmptyDict == [k \in {} |-> 0]

PaperIds == 1..MaxPapers

\* EmbeddingGenerator.__init__ with the provider given or found by the config
Providers == {"voyage", "openai"}
EmbeddingGeneratorInit(provider) == [provider |-> provider]

\* no index_paper call is under way
NoCallers == <<>>
NoPaper == [exists |-> FALSE]
NoCall == [op |-> "none"]

----------------------------------------------------------------------------
(* TextChunker(chunk_size, chunk_overlap).chunk_text(text) on its own *)

InitChunk ==
    /\ config \in Configs
    /\ para_sep_tokens \in 0..1
    /\ ctor_args \in [chunk_size : ArgChunkSizes, chunk_overlap : ArgOverlaps]
    /\ chunker = TextChunkerInit(ctor_args.chunk_size, ctor_args.chunk_overlap, config)
    /\ text \in Texts \cup {TenTokenText}
    /\ chunks = <<>>
    /\ pc = "ready"
    /\ papers = [p \in PaperIds |-> NoPaper]
    /\ store = {}
    /\ last = NoCall
    /\ embedder = EmbeddingGeneratorInit("voyage")
    /\ callers = NoCallers

ChunkTextCall ==
    /\ pc = "ready"
    /\ chunks' = chunk_text(chunker, text, EmptyDict)
    /\ pc' = "done"
    /\ UNCHANGED <<config, para_sep_tokens, ctor_args, chunker, text, papers, store, last,
                   embedder, callers>>

NextChunk == ChunkTextCall

SpecChunk == InitChunk /\ [][NextChunk]_vars

----------------------------------------------------------------------------
(* Dictionaries are functions from keys to integers; None is a value. *)

DictUpdate(a, b) ==
    [k \in DOMAIN a \cup DOMAIN b |-> IF k \in DOMAIN b THEN b[k] ELSE a[k]]

----------------------------------------------------------------------------
(* VectorStore.  The collection is a set of records [id, document,         *)
(* metadata] with distinct ids; the vectors are left out, the ranking of a *)
(* query being any order of the matching records.                          *)

\* _sanitize_metadata: None values are dropped (the values of this model
\* are integers, which are kept as they are)
_sanitize_metadata(metadata) ==
    [k \in {x \in DOMAIN metadata : metadata[x] # None} |-> metadata[k]]

\* where=filter of collection.get / collection.query: exact match on every key
Matches(r, filter) ==
    \A k \in DOMAIN filter : k \in DOMAIN r.metadata /\ r.metadata[k] = filter[k]

CollectionGet(st, filter) == {r \in st : Matches(r, filter)}

\* collection.add: a record whose id is already in the collection is ignored
CollectionAdd(st, recs) ==
    st \cup {r \in recs : \A q \in st : q.id # r.id}

\* collection.delete(ids=...)
CollectionDelete(st, ids) == {r \in st : r.id \notin ids}

\* add_documents with the ids supplied; embed_ok tells whether the batch
\* embedding call succeeds.  Returns the collection, the ids and the outcome.
add_documents(st, texts, metadata, ids, embed_ok) ==
    IF texts = <<>>
    THEN [store |-> st, ids |-> <<>>, outcome |-> "ok"]
    ELSE IF Len(texts) # Len(metadata)
    THEN [store |-> st, ids |-> <<>>, outcome |-> "VectorStoreError"]
    ELSE IF ~embed_ok
    THEN [store |-> st, ids |-> <<>>, outcome |-> "VectorStoreError"]
    ELSE [store |-> CollectionAdd(st,
                       {[id |-> ids[i], document |-> texts[i],
                         metadata |-> _sanitize_metadata(metadata[i])] :
                            i \in 1..Len(texts)}),
          ids |-> ids, outcome |-> "ok"]

\* lines 156-167: the metadata of one chunk's record
ChunkRecordMetadata(paper_id, chunk) ==
    DictUpdate([k \in {"paper_id", "chunk_index", "token_count"} |->
                   CASE k = "paper_id" -> paper_id
                     [] k = "chunk_index" -> chunk.index
                     [] k = "token_count" -> chunk.token_count],
               chunk.metadata)

\* faulty variant of ChunkId: the id does not name the paper
ChunkIdWithoutPaper(paper_id, index) == <<"paper", 0, "chunk", index>>

\* f"paper_{paper_id}_chunk_{chunk['index']}"
ChunkId(paper_id, index) == <<"paper", paper_id, "chunk", index>>

add_paper_chunks(st, paper_id, cks, embed_ok) ==
    IF cks = <<>>
    THEN [store |-> st, ids |-> <<>>, outcome |-> "ok"]
    ELSE add_documents(st,
             [i \in 1..Len(cks) |-> cks[i].text],
             [i \in 1..Len(cks) |-> ChunkRecordMetadata(paper_id, cks[i])],
             [i \in 1..Len(cks) |-> ChunkId(paper_id, cks[i].index)],
             embed_ok)

PaperFilter(paper_id) == [k \in {"paper_id"} |-> paper_id]

\* faulty variant of delete_paper_chunks: the records of every paper go
delete_all_chunks(st, paper_id) == {}

\* faulty variant of delete_paper_chunks: nothing is deleted
delete_nothing(st, paper_id) == st

delete_paper_chunks(st, paper_id) ==
    LET results == CollectionGet(st, PaperFilter(paper_id)) IN
    IF results # {}
    THEN CollectionDelete(st, {r.id : r \in results})
    ELSE st

\* a lookup that fails is counted as 0 (lines 278-279); the collection of
\* these specifications does not fail
get_paper_chunk_count(st, paper_id) ==
    Cardinality(CollectionGet(st, PaperFilter(paper_id)))

RECURSIVE Rankings(_, _)
\* the sequences of n distinct records of rs
Rankings(rs, n) ==
    IF n = 0 \/ rs = {} THEN {<<>>}
    ELSE UNION { { <<r>> \o rest : rest \in Rankings(rs \ {r}, n - 1) } : r \in rs }

\* search: the results collection.query may return, best match first: the
\* n_results nearest of the records that match the filter
search(st, n_results, filter) ==
    LET matching == CollectionGet(st, filter)
        n == IF Cardinality(matching) < n_results
             THEN Cardinality(matching) ELSE n_results
    IN Rankings(matching, n)

\* faulty variant of search_by_paper: the filter is not passed on
search_unscoped(st, paper_id, n_results) == search(st, n_results, EmptyDict)

search_by_paper(st, paper_id, n_results) ==
    search(st, n_results, PaperFilter(paper_id))

----------------------------------------------------------------------------
(* Paper table and RAGRetriever *)

OneParagraph == << << <<1>> >> >>
ThreeParagraphs == << << <<1>> >>, << <<2>> >>, << <<1, 1>> >> >>

\* full_text of a paper: "", white space only, one chunk, two chunks
PaperTexts == { <<>>, <<Blank>>, OneParagraph, ThreeParagraphs }

\* title, authors and year of a paper, authors being nullable
PaperMeta == [k \in {"title", "authors", "year"} |->
                 CASE k = "title" -> 7 [] k = "authors" -> None [] k = "year" -> 2020]

\* lines 70-75: the metadata index_paper gives every chunk
IndexMetadata(paper_id, paper) ==
    [k \in {"paper_id", "title", "authors", "year"} |->
        CASE k = "paper_id" -> paper_id
          [] k = "title" -> paper.title
          [] k = "authors" -> paper.authors
          [] k = "year" -> paper.year]

\* faulty variant of NoFullText: the text of a paper is never looked at
NoFullTextUnchecked(paper) == FALSE

\* line 55, "not paper.full_text": the text is the empty string
NoFullText(paper) == paper.full_text = <<>>

\* index_paper: the collection it leaves and what the call did and returned.
\* steps lists the steps the call took, in the order it took them; deleted
\* and inserted count the records the call removed and added.
index_paper(st, pp, ck, paper_id, embed_ok) ==
    LET paper == pp[paper_id] IN
    IF ~paper.exists \/ NoFullText(paper)
    THEN [store |-> st,
          log |-> [op |-> "index_paper", paper_id |-> paper_id,
                   outcome |-> "ValueError", returned |-> 0, existing_count |-> 0,
                   steps |-> <<"fetch">>, deleted |-> 0, inserted |-> 0]]
    ELSE
    LET existing_count == get_paper_chunk_count(st, paper_id)
        cleared == IF existing_count > 0 THEN delete_paper_chunks(st, paper_id) ELSE st
        cks     == chunk_text(ck, paper.full_text, IndexMetadata(paper_id, paper))
        added   == add_paper_chunks(cleared, paper_id, cks, embed_ok)
    IN [store |-> added.store,
        log |-> [op |-> "index_paper", paper_id |-> paper_id,
                 outcome |-> added.outcome,
                 returned |-> Len(added.ids),
                 existing_count |-> existing_count,
                 steps |-> <<"fetch", "count">>
                           \o (IF existing_count > 0 THEN <<"delete">> ELSE <<>>)
                           \o <<"chunk">>
                           \o (IF cks # <<>> THEN <<"embed">> ELSE <<>>)
                           \o (IF cks # <<>> /\ embed_ok THEN <<"insert">> ELSE <<>>),
                 deleted |-> Cardinality(st \ added.store),
                 inserted |-> Cardinality(added.store \ st)]]

\* the id SQLite gives a new row of papers: one more than the largest id
NewPaperId(pp) ==
    IF \A p \in PaperIds : ~pp[p].exists THEN 1
    ELSE (CHOOSE p \in PaperIds : pp[p].exists /\ \A q \in PaperIds : pp[q].exists => q <= p) + 1

Init ==
    /\ config = [chunk_size |-> DefaultChunkSize, chunk_overlap |-> DefaultChunkOverlap]
    /\ para_sep_tokens = 1
    /\ ctor_args = [chunk_size |-> None, chunk_overlap |-> None]
    /\ chunker = TextChunkerInit(None, None, config)
    /\ text = <<>>
    /\ chunks = <<>>
    /\ pc = "ready"
    /\ papers = [p \in PaperIds |-> NoPaper]
    /\ store = {}
    /\ last = NoCall
    /\ embedder = EmbeddingGeneratorInit("voyage")
    /\ callers = NoCallers

KeepChunker == UNCHANGED <<config, para_sep_tokens, ctor_args, chunker, text, chunks, pc,
                           embedder, callers>>

\* PaperManager.add_paper_from_pdf
AddPaper ==
    \E full_text \in PaperTexts :
        /\ NewPaperId(papers) \in PaperIds
        /\ papers' = [papers EXCEPT ![NewPaperId(papers)] =
                         [exists |-> TRUE, full_text |-> full_text,
                          title |-> PaperMeta["title"], authors |-> PaperMeta["authors"],
                          year |-> PaperMeta["year"]]]
        /\ last' = [op |-> "add_paper", paper_id |-> NewPaperId(papers)]
        /\ UNCHANGED store
        /\ KeepChunker

\* PaperManager.delete_paper
DeletePaper ==
    \E paper_id \in PaperIds :
        /\ IF papers[paper_id].exists
           THEN /\ papers' = [papers EXCEPT ![paper_id] = NoPaper]
                /\ last' = [op |-> "delete_paper", paper_id |-> paper_id, outcome |-> "ok"]
           ELSE /\ UNCHANGED papers
                /\ last' = [op |-> "delete_paper", paper_id |-> paper_id,
                            outcome |-> "PaperNotFoundError"]
        /\ UNCHANGED store
        /\ KeepChunker

\* RAGRetriever.index_paper
IndexPaper ==
    \E paper_id \in PaperIds, embed_ok \in BOOLEAN :
        LET r == index_paper(store, papers, chunker, paper_id, embed_ok) IN
        /\ store' = r.store
        /\ last' = r.log
        /\ UNCHANGED papers
        /\ KeepChunker

\* RAGRetriever.delete_paper_index
DeletePaperIndex ==
    \E paper_id \in PaperIds :
        /\ store' = delete_paper_chunks(store, paper_id)
        /\ last' = [op |-> "delete_paper_index", paper_id |-> paper_id]
        /\ UNCHANGED papers
        /\ KeepChunker

\* VectorStore.search_by_paper
SearchByPaper ==
    \E paper_id \in PaperIds, n_results \in 1..MaxResults :
        \E results \in search_by_paper(store, paper_id, n_results) :
            /\ last' = [op |-> "search_by_paper", paper_id |-> paper_id,
                        n_results |-> n_results, results |-> results]
            /\ UNCHANGED <<papers, store>>
            /\ KeepChunker

Next ==
    \/ AddPaper
    \/ DeletePaper
    \/ IndexPaper
    \/ DeletePaperIndex
    \/ SearchByPaper

Spec == Init /\ [][Next]_vars

----------------------------------------------------------------------------
(* VectorStore.add_paper_chunks called with chunks of the caller's making *)

\* metadata a caller may attach to a chunk
CallerMetadata ==
    { EmptyDict,
      [k \in {"paper_id"} |-> 2],
      [k \in {"paper_id"} |-> None],
      [k \in {"chunk_index"} |-> 5] }

AddPaperChunks ==
    \E paper_id \in PaperIds, metadata \in CallerMetadata, embed_ok \in BOOLEAN :
        LET r == add_paper_chunks(store, paper_id,
                     chunk_text(chunker, OneParagraph, metadata), embed_ok) IN
        /\ store' = r.store
        /\ last' = [op |-> "add_paper_chunks", paper_id |-> paper_id,
                    outcome |-> r.outcome, ids |-> r.ids]
        /\ UNCHANGED papers
        /\ KeepChunker

NextStore ==
    \/ AddPaper
    \/ DeletePaper
    \/ IndexPaper
    \/ DeletePaperIndex
    \/ AddPaperChunks

SpecStore == Init /\ [][NextStore]_vars

----------------------------------------------------------------------------
(* VectorStore and the read side of RAGRetriever called directly, over a   *)
(* Chroma collection and an embedding backend either of which may fail     *)

MaxDocs == 2
MaxStore == 3

\* what add_documents is given for one document: the text and the metadata
\* of a chunk of a paper with a title, and of a paper without
DocumentInputs ==
    { [text |-> WordText(1),
       metadata |-> [k \in {"paper_id", "title"} |-> IF k = "paper_id" THEN 1 ELSE 7]],
      [text |-> WordText(2),
       metadata |-> [k \in {"paper_id"} |-> 2]] }

\* a list of n elements x
Repeat(x, n) == [i \in 1..n |-> x]

\* what may fail during a call: nothing, the embedding backend, the collection
Faults == {"none", "embed", "index"}

\* f"doc_{n}", four parts long as the ids of ChunkId are
DocId(n) == <<"doc", n, "doc", 0>>

\* lines 100-103: ids = None, the ids are made from the size of the collection
GeneratedIds(st, n) == [i \in 1..n |-> DocId(Cardinality(st) + (i - 1))]

\* ids a caller supplies
SuppliedIds(n) == [i \in 1..n |-> DocId(i - 1)]

\* try: ... except Exception as e: raise VectorStoreError(...) from e
Wrapped(ok) == IF ok THEN "ok" ELSE "VectorStoreError"

\* no try around the call: the exception of the collection escapes as it is
Unwrapped(ok) == IF ok THEN "ok" ELSE "Exception"

\* VectorStore.add_documents.  With ids = None the size of the collection is
\* asked for first, then the texts are embedded, then the records are added;
\* the three of them are inside one try.
AddDocuments ==
    \E d \in DocumentInputs, n \in 0..MaxDocs, m \in 0..MaxDocs,
       generated \in BOOLEAN, fault \in Faults :
        LET texts     == Repeat(d.text, n)
            metadatas == Repeat(d.metadata, m)
            ids     == IF generated THEN GeneratedIds(store, n) ELSE SuppliedIds(n)
            r       == add_documents(store, texts, metadatas, ids, fault = "none")
            checked == texts # <<>> /\ Len(texts) = Len(metadatas)
        IN
        /\ Cardinality(store) + n <= MaxStore
        /\ store' = r.store
        /\ last' = [op |-> "add_documents",
                    texts |-> Len(texts), metadatas |-> Len(metadatas),
                    outcome |-> r.outcome, returned |-> Len(r.ids),
                    embed_called |-> checked /\ (generated => fault # "index"),
                    index_failed |-> checked /\ fault = "index",
                    inserted |-> Cardinality(r.store \ store)]
        /\ UNCHANGED papers
        /\ KeepChunker

\* VectorStore.delete_paper_chunks
DeletePaperChunks ==
    \E paper_id \in PaperIds, index_ok \in BOOLEAN :
        /\ store' = IF index_ok THEN delete_paper_chunks(store, paper_id) ELSE store
        /\ last' = [op |-> "delete_paper_chunks", paper_id |-> paper_id,
                    outcome |-> Wrapped(index_ok), index_failed |-> ~index_ok,
                    deleted |-> IF index_ok
                                THEN Cardinality(store \ delete_paper_chunks(store, paper_id))
                                ELSE 0]
        /\ UNCHANGED papers
        /\ KeepChunker

\* VectorStore.count
Count ==
    \E index_ok \in BOOLEAN :
        /\ last' = [op |-> "count", outcome |-> Unwrapped(index_ok),
                    index_failed |-> ~index_ok,
                    returned |-> IF index_ok THEN Cardinality(store) ELSE 0]
        /\ UNCHANGED <<papers, store>>
        /\ KeepChunker

\* VectorStore.reset: delete_collection, then create_collection; when one of
\* the two fails the collection is as it was or gone
Reset ==
    \E index_ok \in BOOLEAN :
        /\ store' \in (IF index_ok THEN {{}} ELSE {store, {}})
        /\ last' = [op |-> "reset", outcome |-> Wrapped(index_ok),
                    index_failed |-> ~index_ok]
        /\ UNCHANGED papers
        /\ KeepChunker

\* The vectors are left out: a text and a query are placed by their token
\* counts and the distance between them is the gap.  The collection is made
\* with "hnsw:space": "cosine", whose distances go from 0 to 2, and so do
\* the gaps between Queries and Documents.
Queries == {1, 3}
Distance(query, document) ==
    LET a == _count_tokens(document) IN
    IF query < a THEN a - query ELSE query - a

\* collection.query: the n_results nearest of the matching records, nearest
\* first, records at one distance in any order
Query(st, query, n_results, filter) ==
    { ranking \in search(st, n_results, filter) :
        /\ \A i \in 1..(Len(ranking) - 1) :
               Distance(query, ranking[i].document)
                   <= Distance(query, ranking[i + 1].document)
        /\ \A r \in CollectionGet(st, filter) :
               \/ \E i \in 1..Len(ranking) : ranking[i] = r
               \/ \A i \in 1..Len(ranking) :
                      Distance(query, ranking[i].document)
                          <= Distance(query, r.document) }

\* lines 208-213: the result of collection.query as four lists of one length
QueryResults(query, ranking) ==
    [ids       |-> [i \in 1..Len(ranking) |-> ranking[i].id],
     documents |-> [i \in 1..Len(ranking) |-> ranking[i].document],
     metadatas |-> [i \in 1..Len(ranking) |-> ranking[i].metadata],
     distances |-> [i \in 1..Len(ranking) |-> Distance(query, ranking[i].document)]]

NoResults == [ids |-> <<>>, documents |-> <<>>, metadatas |-> <<>>, distances |-> <<>>]

\* faulty variant of FormatResults: the relevance is kept within 0..1
FormatResultsClamped(results) ==
    [i \in 1..Len(results.ids) |->
        [id |-> results.ids[i], text |-> results.documents[i],
         metadata |-> results.metadatas[i], distance |-> results.distances[i],
         relevance_score |-> IF 1 - results.distances[i] < 0 THEN 0
                             ELSE 1 - results.distances[i]]]

\* RAGRetriever.search, lines 106-116: one formatted result per hit
FormatResults(results) ==
    [i \in 1..Len(results.ids) |->
        [id |-> results.ids[i], text |-> results.documents[i],
         metadata |-> results.metadatas[i], distance |-> results.distances[i],
         relevance_score |-> 1 - results.distances[i]]]

\* RAGRetriever.search, lines 100-103: `if paper_id:` chooses the search
StoreRankings(st, query, n_results, paper_id) ==
    IF ~Falsy(paper_id)
    THEN Query(st, query, n_results, PaperFilter(paper_id))
    ELSE Query(st, query, n_results, EmptyDict)

\* metadata.get(key, "Unknown")
Unknown == -2
Get(metadata, key, default) ==
    IF key \in DOMAIN metadata THEN metadata[key] ELSE default

\* f"[Paper {paper_id}: {title}]\n" f"{result['text']}\n": the word of the
\* header, the two values put into it and the text, each line ended by "\n"
ContextPart(result) ==
    [label |-> "Paper",
     paper_id |-> Get(result.metadata, "paper_id", Unknown),
     title |-> Get(result.metadata, "title", Unknown),
     text |-> result.text,
     lines |-> <<"header", "\n", "text", "\n">>]

\* faulty variant of get_context_for_query: the last part is left out
context_without_last(results) ==
    [sep |-> "\n---\n",
     parts |-> [i \in 1..(IF results = <<>> THEN 0 ELSE Len(results) - 1) |->
                   ContextPart(results[i])]]

\* get_context_for_query, lines 138-149: "\n---\n".join(context_parts); the
\* join of no part is the empty string
get_context_for_query(results) ==
    [sep |-> "\n---\n",
     parts |-> [i \in 1..Len(results) |-> ContextPart(results[i])]]

EmptyString == [sep |-> "\n---\n", parts |-> <<>>]

SearchPaperIds == {None} \cup PaperIds

\* RAGRetriever.search: VectorStore.search embeds the query, then queries
\* the collection; a failure of either reaches the caller as VectorStoreError
RetrieverSearchOver(paper_ids) ==
    \E query \in Queries, paper_id \in paper_ids, n_results \in 1..MaxResults,
       fault \in Faults :
        /\ IF fault = "none"
           THEN \E ranking \in StoreRankings(store, query, n_results, paper_id) :
                    LET hits == QueryResults(query, ranking) IN
                    last' = [op |-> "search", paper_id |-> paper_id,
                             n_results |-> n_results, outcome |-> "ok",
                             index_failed |-> FALSE,
                             hits |-> hits, results |-> FormatResults(hits)]
           ELSE last' = [op |-> "search", paper_id |-> paper_id,
                         n_results |-> n_results, outcome |-> Wrapped(FALSE),
                         index_failed |-> fault = "index",
                         hits |-> NoResults, results |-> <<>>]
        /\ UNCHANGED <<papers, store>>
        /\ KeepChunker

RetrieverSearch == RetrieverSearchOver(SearchPaperIds)

\* RAGRetriever.get_context_for_query
GetContextForQueryOver(paper_ids) ==
    \E query \in Queries, paper_id \in paper_ids, n_results \in 1..MaxResults,
       fault \in Faults :
        /\ IF fault = "none"
           THEN \E ranking \in StoreRankings(store, query, n_results, paper_id) :
                    LET hits == QueryResults(query, ranking) IN
                    last' = [op |-> "get_context_for_query", paper_id |-> paper_id,
                             n_results |-> n_results, outcome |-> "ok",
                             index_failed |-> FALSE, hits |-> hits,
                             context |-> get_context_for_query(FormatResults(hits))]
           ELSE last' = [op |-> "get_context_for_query", paper_id |-> paper_id,
                         n_results |-> n_results, outcome |-> Wrapped(FALSE),
                         index_failed |-> fault = "index",
                         hits |-> NoResults, context |-> EmptyString]
        /\ UNCHANGED <<papers, store>>
        /\ KeepChunker

GetContextForQuery == GetContextForQueryOver(SearchPaperIds)

NextVectorStore ==
    \/ AddDocuments
    \/ DeletePaperChunks
    \/ Count
    \/ Reset
    \/ RetrieverSearch
    \/ GetContextForQuery

SpecVectorStore == Init /\ [][NextVectorStore]_vars

----------------------------------------------------------------------------
(* add_documents called without ids, between add_paper_chunks and          *)
(* delete_paper_chunks calls                                               *)

\* VectorStore.add_documents(texts, metadatas): ids is None, lines 100-103
\* make the ids from collection.count()
AddDocumentsWithoutIds ==
    \E d \in DocumentInputs, n \in 1..MaxDocs, embed_ok \in BOOLEAN :
        LET r == add_documents(store, Repeat(d.text, n), Repeat(d.metadata, n),
                               GeneratedIds(store, n), embed_ok) IN
        /\ Cardinality(store) + n <= MaxStore
        /\ store' = r.store
        /\ last' = [op |-> "add_documents", generated |-> TRUE,
                    outcome |-> r.outcome, ids |-> r.ids,
                    inserted |-> Cardinality(r.store \ store)]
        /\ UNCHANGED papers
        /\ KeepChunker

NextGeneratedIds ==
    \/ AddDocumentsWithoutIds
    \/ AddPaperChunks
    \/ DeletePaperChunks

SpecGeneratedIds == Init /\ [][NextGeneratedIds]_vars

----------------------------------------------------------------------------
(* The retriever's reads given any integer as paper_id, over documents     *)
(* added without ids                                                       *)

\* paper_id: Optional[int]: omitted, 0, or the id of a paper
AnyPaperIds == {None, 0} \cup PaperIds

SearchAnyPaper == RetrieverSearchOver(AnyPaperIds)

GetContextAnyPaper == GetContextForQueryOver(AnyPaperIds)

NextScope ==
    \/ AddDocumentsWithoutIds
    \/ SearchAnyPaper
    \/ GetContextAnyPaper

SpecScope == Init /\ [][NextScope]_vars

----------------------------------------------------------------------------
(* QAAgent._extract_sources reading the string get_context_for_query       *)
(* writes.  The string is taken line by line: a line is the "---" of the   *)
(* separator, a header "[<label> <paper_id>: <title>]", an empty line or   *)
(* any other line.                                                         *)

Line(kind, label, paper_id, title) ==
    [kind |-> kind, label |-> label, paper_id |-> paper_id, title |-> title]
PlainLine == Line("plain", "", None, None)
EmptyLine == Line("empty", "", None, None)
RuleLine == Line("rule", "", None, None)
HeaderLine(label, paper_id, title) == Line("header", label, paper_id, title)

\* the string a context is: the lines of "\n---\n".join(context_parts), every
\* part being its header, "\n", its text, "\n"
RECURSIVE JoinParts(_)
JoinParts(parts) ==
    IF parts = <<>> THEN <<EmptyLine>>
    ELSE LET part == Head(parts)
             lines == <<HeaderLine(part.label, part.paper_id, part.title)>>
                          \o part.text \o <<EmptyLine>>
         IN IF Tail(parts) = <<>> THEN lines
            ELSE lines \o <<RuleLine>> \o JoinParts(Tail(parts))

ContextLines(context) == JoinParts(context.parts)

\* line 129, context.split("\n---\n"): the string is cut at every "---"
\* line that has a line before it and a line after it, from the left
RECURSIVE SplitOnRule(_)
SplitOnRule(lines) ==
    LET cuts == {i \in 2..(Len(lines) - 1) : lines[i] = RuleLine} IN
    IF cuts = {} THEN <<lines>>
    ELSE LET i == CHOOSE c \in cuts : \A d \in cuts : c <= d IN
         <<SubSeq(lines, 1, i - 1)>> \o SplitOnRule(SubSeq(lines, i + 1, Len(lines)))

\* lines 132-145: a part gives a source when it is not blank, has a line
\* after its first line, its first line starts with "[Paper" and the word
\* after "Paper" is a number
GivesSource(part) ==
    /\ \E i \in 1..Len(part) : part[i] # EmptyLine
    /\ Len(part) >= 2
    /\ part[1].kind = "header"
    /\ part[1].label = "Paper"
    /\ part[1].paper_id # Unknown

SourceOf(part) == [paper_id |-> part[1].paper_id, title |-> part[1].title]

\* QAAgent._extract_sources
_extract_sources(lines) ==
    LET parts == SelectSeq(SplitOnRule(lines), GivesSource) IN
    [i \in 1..Len(parts) |-> SourceOf(parts[i])]

\* texts of chunks: one line; a "---" line between two lines; a "---" line
\* first; a "---" line followed by a line that reads as a header
HitTexts ==
    { <<PlainLine>>,
      <<PlainLine, RuleLine, PlainLine>>,
      <<RuleLine, PlainLine>>,
      <<PlainLine, RuleLine, HeaderLine("Paper", 9, 8), PlainLine>> }

\* a result of RAGRetriever.search as get_context_for_query reads it
Hits ==
    { [text |-> t, metadata |-> [k \in {"paper_id", "title"} |->
                                    IF k = "paper_id" THEN p ELSE title]] :
        t \in HitTexts, p \in PaperIds, title \in {7, 8} }

HitLists == UNION { [1..n -> Hits] : n \in 0..MaxResults }

\* answer_question, lines 59-61 and 109: the context of the hits is written
\* and the sources are read back from it
ExtractSources ==
    \E results \in HitLists :
        LET context == get_context_for_query(results) IN
        /\ last' = [op |-> "extract_sources", results |-> results,
                    context |-> context,
                    sources |-> _extract_sources(ContextLines(context))]
        /\ UNCHANGED <<papers, store>>
        /\ KeepChunker

NextContext == ExtractSources

SpecContext == Init /\ [][NextContext]_vars

----------------------------------------------------------------------------
(* EmbeddingGenerator over a backend that may fail *)

MaxBatch == 3

\* the texts given to the generator, and the lists of them
EmbedTexts == {"a", "b", "c"}
Batches == UNION { [1..n -> EmbedTexts] : n \in 0..MaxBatch }

\* the vector a backend makes of a text: it depends on the backend, on the
\* text and, with voyage, on input_type
Vector(provider, t, input_type) == [by |-> provider, of |-> t, input_type |-> input_type]

\* voyageai.Client.embed(texts, model, input_type): result.embeddings holds
\* one vector per text, in the order of the texts
VoyageEmbed(texts, input_type) ==
    [embeddings |-> [i \in 1..Len(texts) |-> Vector("voyage", texts[i], input_type)]]

\* openai embeddings.create(input=texts, model): result.data holds one item
\* per text, in the order of the texts, with its index and its vector
OpenAICreate(texts) ==
    [data |-> [i \in 1..Len(texts) |->
                  [index |-> i - 1, embedding |-> Vector("openai", texts[i], "none")]]]

\* faulty variant of BatchEmbeddings: texts met before are not embedded again
BatchEmbeddingsDistinct(eg, texts) ==
    LET firsts == SelectSeq([i \in 1..Len(texts) |->
                                IF \E j \in 1..(i - 1) : texts[j] = texts[i]
                                THEN "" ELSE texts[i]],
                            LAMBDA t : t # "")
    IN [i \in 1..Len(firsts) |-> Vector(eg.provider, firsts[i],
                                        IF eg.provider = "voyage" THEN "document" ELSE "none")]

\* embed_batch, lines 96-102: the embeddings taken from the backend's result
BatchEmbeddings(eg, texts) ==
    IF eg.provider = "voyage"
    THEN VoyageEmbed(texts, "document").embeddings
    ELSE LET result == OpenAICreate(texts) IN
         [i \in 1..Len(result.data) |-> result.data[i].embedding]

\* a call that raised: nothing is returned
Raised(error, backend_calls) ==
    [outcome |-> error, returned |-> FALSE, backend_calls |-> backend_calls]

Returned(value, backend_calls) ==
    [outcome |-> "ok", returned |-> TRUE, value |-> value, backend_calls |-> backend_calls]

\* faulty variant of embed_batch: a failure of the backend gives an empty list
embed_batch_or_empty(eg, texts, backend_ok) ==
    IF texts = <<>> \/ ~backend_ok
    THEN Returned(<<>>, IF texts = <<>> THEN 0 ELSE 1)
    ELSE Returned(BatchEmbeddings(eg, texts), 1)

\* embed_batch; backend_ok tells whether the call of the backend succeeds
embed_batch(eg, texts, backend_ok) ==
    IF texts = <<>>
    THEN Returned(<<>>, 0)
    ELSE IF backend_ok
    THEN Returned(BatchEmbeddings(eg, texts), 1)
    ELSE Raised("EmbeddingError", 1)

\* embed_text: embed_batch([text])[0]
embed_text(eg, t, backend_ok) ==
    LET r == embed_batch(eg, <<t>>, backend_ok) IN
    IF ~r.returned THEN r
    ELSE IF r.value = <<>> THEN Raised("IndexError", r.backend_calls)
    ELSE Returned(r.value[1], r.backend_calls)

\* embed_query: voyage embeds [query] with input_type "query"; openai goes
\* through embed_text; whatever is raised inside is raised as EmbeddingError
embed_query(eg, query, backend_ok) ==
    LET r == IF eg.provider = "voyage"
             THEN IF backend_ok
                  THEN Returned(VoyageEmbed(<<query>>, "query").embeddings[1], 1)
                  ELSE Raised("Exception", 1)
             ELSE embed_text(eg, query, backend_ok)
    IN IF r.returned THEN r ELSE Raised("EmbeddingError", r.backend_calls)

\* an API key of the configuration: None, or a string stood for by its
\* length, 0 being the empty string
ApiKeys == {None, 0, 5}

\* faulty variant of get_embedding_provider: openai is looked for first
get_embedding_provider_openai_first(cfg) ==
    IF ~Falsy(cfg.openai_api_key) THEN Returned("openai", 0)
    ELSE IF ~Falsy(cfg.voyage_api_key) THEN Returned("voyage", 0)
    ELSE Raised("ValueError", 0)

\* Config.get_embedding_provider
get_embedding_provider(cfg) ==
    IF ~Falsy(cfg.voyage_api_key) THEN Returned("voyage", 0)
    ELSE IF ~Falsy(cfg.openai_api_key) THEN Returned("openai", 0)
    ELSE Raised("ValueError", 0)

InitEmbed ==
    /\ config \in [chunk_size : {DefaultChunkSize}, chunk_overlap : {DefaultChunkOverlap},
                    voyage_api_key : ApiKeys, openai_api_key : ApiKeys]
    /\ para_sep_tokens = 1
    /\ ctor_args = [chunk_size |-> None, chunk_overlap |-> None]
    /\ chunker = TextChunkerInit(None, None, config)
    /\ text = <<>>
    /\ chunks = <<>>
    /\ pc = "ready"
    /\ papers = [p \in PaperIds |-> NoPaper]
    /\ store = {}
    /\ last = NoCall
    /\ embedder \in {EmbeddingGeneratorInit(provider) : provider \in Providers}
    /\ callers = NoCallers

KeepAllButLast ==
    UNCHANGED <<config, para_sep_tokens, ctor_args, chunker, text, chunks, pc,
                papers, store, embedder, callers>>

\* EmbeddingGenerator.embed_batch
EmbedBatch ==
    \E texts \in Batches, backend_ok \in BOOLEAN :
        /\ last' = [op |-> "embed_batch", texts |-> texts, backend_ok |-> backend_ok,
                    result |-> embed_batch(embedder, texts, backend_ok)]
        /\ KeepAllButLast

\* EmbeddingGenerator.embed_text
EmbedText ==
    \E t \in EmbedTexts, backend_ok \in BOOLEAN :
        /\ last' = [op |-> "embed_text", texts |-> <<t>>, backend_ok |-> backend_ok,
                    result |-> embed_text(embedder, t, backend_ok)]
        /\ KeepAllButLast

\* EmbeddingGenerator.embed_query
EmbedQuery ==
    \E query \in EmbedTexts, backend_ok \in BOOLEAN :
        /\ last' = [op |-> "embed_query", texts |-> <<query>>, backend_ok |-> backend_ok,
                    result |-> embed_query(embedder, query, backend_ok)]
        /\ KeepAllButLast

\* Config.get_embedding_provider
GetEmbeddingProvider ==
    /\ last' = [op |-> "get_embedding_provider", result |-> get_embedding_provider(config)]
    /\ KeepAllButLast

NextEmbed ==
    \/ EmbedBatch
    \/ EmbedText
    \/ EmbedQuery
    \/ GetEmbeddingProvider

SpecEmbed == InitEmbed /\ [][NextEmbed]_vars

----------------------------------------------------------------------------
(* index_all_papers over the paper table *)

\* session.query(Paper).all(): the ids of the rows, in the order of the ids
AllPapers(pp) == SelectSeq([p \in PaperIds |-> p], LAMBDA p : pp[p].exists)

\* the counters of index_all_papers before the loop; calls is a history
\* field: what was done for each paper, in the order of the loop
IndexAllStart(st) ==
    [store |-> st, indexed |-> 0, failed |-> 0, total_chunks |-> 0, calls |-> <<>>]

\* lines 201-203: a paper without text is counted as failed
Skipped(acc, paper_id) ==
    [acc EXCEPT !.failed = @ + 1,
                !.calls = Append(@, [paper_id |-> paper_id, called |-> FALSE,
                                     outcome |-> "skipped", returned |-> 0])]

\* faulty variant of Counted: an index_paper call that raised is not counted
CountedWhenIndexed(acc, paper_id, r) ==
    [store |-> r.store,
     indexed |-> acc.indexed + (IF r.log.outcome = "ok" THEN 1 ELSE 0),
     failed |-> acc.failed,
     total_chunks |-> acc.total_chunks
                        + (IF r.log.outcome = "ok" THEN r.log.returned ELSE 0),
     calls |-> Append(acc.calls, [paper_id |-> paper_id, called |-> TRUE,
                                  outcome |-> r.log.outcome,
                                  returned |-> r.log.returned])]

\* lines 197-199 and 204-206: r is what the index_paper call did; a call
\* that returned is counted as indexed, with its chunks, one that raised as
\* failed
Counted(acc, paper_id, r) ==
    [store |-> r.store,
     indexed |-> acc.indexed + (IF r.log.outcome = "ok" THEN 1 ELSE 0),
     failed |-> acc.failed + (IF r.log.outcome = "ok" THEN 0 ELSE 1),
     total_chunks |-> acc.total_chunks
                        + (IF r.log.outcome = "ok" THEN r.log.returned ELSE 0),
     calls |-> Append(acc.calls, [paper_id |-> paper_id, called |-> TRUE,
                                  outcome |-> r.log.outcome,
                                  returned |-> r.log.returned])]

\* lines 194-206, one turn of the loop
IndexAllStep(acc, pp, ck, paper_id, embed_ok) ==
    IF NoFullText(pp[paper_id])
    THEN Skipped(acc, paper_id)
    ELSE Counted(acc, paper_id, index_paper(acc.store, pp, ck, paper_id, embed_ok))

\* the loop over the papers: the counters after the first n turns
IndexAllLoop(acc, pp, ck, ids, embed_ok) ==
    LET after[n \in 0..Len(ids)] ==
            IF n = 0 THEN acc
            ELSE IndexAllStep(after[n - 1], pp, ck, ids[n], embed_ok[ids[n]])
    IN after[Len(ids)]

\* lines 208-213: the report, with the collection the loop leaves
IndexAllReport(ids, acc) ==
    [store |-> acc.store,
     log |-> [op |-> "index_all_papers", outcome |-> "ok",
              report |-> [indexed |-> acc.indexed, failed |-> acc.failed,
                          total |-> Len(ids), total_chunks |-> acc.total_chunks],
              calls |-> acc.calls]]

\* index_all_papers: the collection it leaves and the report it returns;
\* embed_ok tells for each paper whether its batch embedding succeeds
index_all_papers(st, pp, ck, embed_ok) ==
    IndexAllReport(AllPapers(pp),
                   IndexAllLoop(IndexAllStart(st), pp, ck, AllPapers(pp), embed_ok))

\* the collection and the log of an index_all_papers call
IndexAllDone(r) ==
    /\ store' = r.store
    /\ last' = r.log

IndexAllPapers ==
    \E embed_ok \in [PaperIds -> BOOLEAN] :
        /\ IndexAllDone(index_all_papers(store, papers, chunker, embed_ok))
        /\ UNCHANGED papers
        /\ KeepChunker

NextIndexAll ==
    \/ AddPaper
    \/ DeletePaper
    \/ IndexAllPapers

SpecIndexAll == Init /\ [][NextIndexAll]_vars

----------------------------------------------------------------------------
(* Two index_paper calls for different papers under way at once.  Each     *)
(* call goes through the steps of index_paper one at a time; a step holds  *)
(* at most one operation on the collection (the count lookup, the delete,  *)
(* the insert), which is atomic, and the steps of the two calls interleave *)
(* in any order.  Chunking and embedding touch nothing shared and are part *)
(* of the step of the insert.                                             *)

Callers == 1..2

\* a call of index_paper(paper_id) about to fetch its paper.  touched is a
\* history field: the papers whose records the call has removed or added.
NewCall(paper_id, embed_ok) ==
    [pc |-> "fetch", paper_id |-> paper_id, embed_ok |-> embed_ok,
     existing_count |-> 0, outcome |-> "none", returned |-> 0, touched |-> {}]

\* the papers whose records differ between two collections
PapersChanged(before, after) ==
    {r.metadata["paper_id"] : r \in (before \ after) \cup (after \ before)}

\* the two calls are made, for two different papers
BeginCalls ==
    \E p1 \in PaperIds, p2 \in PaperIds, ok1 \in BOOLEAN, ok2 \in BOOLEAN :
        /\ callers = NoCallers
        /\ p1 < p2
        /\ callers' = <<NewCall(p1, ok1), NewCall(p2, ok2)>>
        /\ last' = [op |-> "index_paper calls", before |-> store]
        /\ UNCHANGED <<papers, store>>
        /\ UNCHANGED <<config, para_sep_tokens, ctor_args, chunker, text, chunks, pc, embedder>>

KeepForStep ==
    UNCHANGED <<config, para_sep_tokens, ctor_args, chunker, text, chunks, pc,
                embedder, papers, last>>

\* lines 50-56: the paper is fetched; without a paper or a text, ValueError
FetchStep(c) ==
    /\ callers # NoCallers
    /\ callers[c].pc = "fetch"
    /\ LET paper == papers[callers[c].paper_id] IN
       callers' = [callers EXCEPT ![c] =
           IF ~paper.exists \/ NoFullText(paper)
           THEN [@ EXCEPT !.pc = "done", !.outcome = "ValueError"]
           ELSE [@ EXCEPT !.pc = "count"]]
    /\ UNCHANGED store
    /\ KeepForStep

\* line 59: get_paper_chunk_count
CountStep(c) ==
    /\ callers # NoCallers
    /\ callers[c].pc = "count"
    /\ LET existing_count == get_paper_chunk_count(store, callers[c].paper_id) IN
       callers' = [callers EXCEPT ![c] =
           [@ EXCEPT !.existing_count = existing_count,
                     !.pc = IF existing_count > 0 THEN "delete" ELSE "insert"]]
    /\ UNCHANGED store
    /\ KeepForStep

\* lines 60-65: delete_paper_chunks
DeleteStep(c) ==
    /\ callers # NoCallers
    /\ callers[c].pc = "delete"
    /\ store' = delete_paper_chunks(store, callers[c].paper_id)
    /\ callers' = [callers EXCEPT ![c] =
           [@ EXCEPT !.pc = "insert",
                     !.touched = @ \cup PapersChanged(store, store')]]
    /\ KeepForStep

\* lines 68-82: chunk_text, then add_paper_chunks, which embeds the chunks
\* and adds the records to the collection
InsertStep(c) ==
    /\ callers # NoCallers
    /\ callers[c].pc = "insert"
    /\ LET paper_id == callers[c].paper_id
           cks   == chunk_text(chunker, papers[paper_id].full_text,
                               IndexMetadata(paper_id, papers[paper_id]))
           added == add_paper_chunks(store, paper_id, cks, callers[c].embed_ok)
       IN /\ store' = added.store
          /\ callers' = [callers EXCEPT ![c] =
                 [@ EXCEPT !.pc = "done", !.outcome = added.outcome,
                           !.returned = Len(added.ids),
                           !.touched = @ \cup PapersChanged(store, added.store)]]
    /\ KeepForStep

\* both calls have returned or raised
EndCalls ==
    /\ callers # NoCallers
    /\ \A c \in Callers : callers[c].pc = "done"
    /\ callers' = NoCallers
    /\ last' = [op |-> "index_paper calls over"]
    /\ UNCHANGED <<papers, store>>
    /\ UNCHANGED <<config, para_sep_tokens, ctor_args, chunker, text, chunks, pc, embedder>>

\* the paper table changes while no call is under way
AddPaperBetweenCalls == callers = NoCallers /\ AddPaper
DeletePaperBetweenCalls == callers = NoCallers /\ DeletePaper

NextConcurrent ==
    \/ AddPaperBetweenCalls
    \/ DeletePaperBetweenCalls
    \/ BeginCalls
    \/ \E c \in Callers : FetchStep(c)
    \/ \E c \in Callers : CountStep(c)
    \/ \E c \in Callers : DeleteStep(c)
    \/ \E c \in Callers : InsertStep(c)
    \/ EndCalls

SpecConcurrent == Init /\ [][NextConcurrent]_vars

----------------------------------------------------------------------------
(* MetadataParser.parse_metadata.  The first page of a paper is a sequence *)
(* of lines; a line is 0 when extract_title passes over it (too short, too *)
(* long, a header, mostly punctuation) and else the number of the title it *)
(* spells.  Titles and authors are numbers, 0 being the empty string.      *)

MaxLines == 2

FirstPages == UNION { [1..n -> 0..2] : n \in 0..MaxLines }

\* pdf_metadata: no dictionary or an empty one, or a dictionary with a
\* title (None, empty, or a title the text does not spell) and maybe an author
PdfMetadata ==
    {EmptyDict}
    \cup { [k \in {"title"} |-> t] : t \in {None, 0, 8} }
    \cup { [k \in {"title", "author"} |-> IF k = "title" THEN t ELSE 9] : t \in {None, 0, 8} }
    \cup { [k \in {"author"} |-> 9] }

\* extract_title: the first line of the page that can be a title
extract_title(lines) ==
    LET candidates == SelectSeq(lines, LAMBDA line : line # 0) IN
    IF candidates # <<>> THEN candidates[1] ELSE None

\* a or b
Or(a, b) == IF Falsy(a) THEN b ELSE a

\* parse_metadata, the title and the authors of its result; the text of
\* this model names no author
parse_metadata(lines, pdf_metadata) ==
    LET from_pdf == IF pdf_metadata # EmptyDict
                    THEN [title   |-> Or(Get(pdf_metadata, "title", None), None),
                          authors |-> Or(Get(pdf_metadata, "author", None), None)]
                    ELSE [title |-> None, authors |-> None]
    IN [title   |-> IF Falsy(from_pdf.title) THEN extract_title(lines)
                    ELSE from_pdf.title,
        authors |-> IF Falsy(from_pdf.authors) THEN None ELSE from_pdf.authors]

ParseMetadata ==
    \E lines \in FirstPages, pdf_metadata \in PdfMetadata :
        /\ last' = [op |-> "parse_metadata", text |-> lines,
                    pdf_metadata |-> pdf_metadata,
                    result |-> parse_metadata(lines, pdf_metadata)]
        /\ KeepAllButLast

NextMetadata == ParseMetadata

SpecMetadata == Init /\ [][NextMetadata]_vars

----------------------------------------------------------------------------
(* Properties of chunk_text *)

ChunkWords(c) == WordsOfParts(c.text.parts)

\* a chunk of one word whose own token count exceeds chunk_size
LoneOversizedWord(c) ==
    /\ Len(ChunkWords(c)) = 1
    /\ _count_tokens(WordText(ChunkWords(c)[1])) > chunker.chunk_size

\* C1: every chunk chunk_text returns records a token_count (the tokens of
\* its own joined text) of at most chunk_size, unless it is a single word
\* whose own token count exceeds chunk_size.
C1_ChunkBudget ==
    pc = "done" =>
        \A i \in 1..Len(chunks) :
            \/ chunks[i].token_count <= chunker.chunk_size
            \/ LoneOversizedWord(chunks[i])

\* the parts of a chunk that are not carried over from the chunk before
FreshParts(c) == SubSeq(c.text.parts, c.text.carry + 1, Len(c.text.parts))

FreshAt(cs, level) ==
    Flatten([i \in 1..Len(cs) |->
                IF cs[i].text.level = level THEN FreshParts(cs[i]) ELSE <<>>])

Oversized(unit) == SumSeq(WordsOfParagraph(unit)) > chunker.chunk_size

\* every sentence of the oversized paragraphs, and every word of their
\* oversized sentences, each as a paragraph-shaped part
SentencesOf(ps) ==
    Flatten([i \in 1..Len(ps) |-> [j \in 1..Len(ps[i]) |-> <<ps[i][j]>>]])
WordsAsParts(sentenceParts) ==
    Flatten([i \in 1..Len(sentenceParts) |->
                [j \in 1..Len(sentenceParts[i][1]) |-> << <<sentenceParts[i][1][j]>> >>]])

\* C5: chunk_text loses nothing and keeps the order: the paragraphs that
\* fit, the sentences of the oversized paragraphs and the words of their
\* oversized sentences each appear in the chunks, in document order, once
\* the carried-over paragraphs are skipped; so do the words of the text.
C5_Coverage ==
    pc = "done" =>
        LET ps       == _split_into_paragraphs(text)
            bigParas == SelectSeq(ps, Oversized)
            sents    == SentencesOf(bigParas)
        IN /\ FreshAt(chunks, "paragraph") = SelectSeq(ps, LAMBDA p : ~Oversized(p))
           /\ FreshAt(chunks, "sentence") = SelectSeq(sents, LAMBDA u : ~Oversized(u))
           /\ FreshAt(chunks, "word") = WordsAsParts(SelectSeq(sents, Oversized))
           /\ WordsOfParts(Flatten([i \in 1..Len(chunks) |-> FreshParts(chunks[i])]))
                  = WordsOfParts(ps)

\* three paragraphs, the second one emitted twice: at the end of the first
\* chunk and, carried over as overlap, at the start of the second
C5_Witness ==
    /\ pc = "done"
    /\ Len(_split_into_paragraphs(text)) = 3
    /\ Len(chunks) = 2
    /\ chunks[2].text.carry = 1
    /\ chunks[2].text.parts[1] = chunks[1].text.parts[2]

\* C6: the chunks of one chunk_text call are indexed 0, 1, ..., n-1 in the
\* order they are emitted.
C6_IndexContiguity ==
    pc = "done" => \A i \in 1..Len(chunks) : chunks[i].index = i - 1

\* paragraph-built chunks and sentence and word sub-chunks in one result
C6_Witness ==
    /\ pc = "done"
    /\ Len(chunks) >= 4
    /\ \E i \in 1..Len(chunks) : chunks[i].text.level = "sentence"
    /\ \E i \in 1..Len(chunks) : chunks[i].text.level = "word"
    /\ chunks[1].text.level = "paragraph"
    /\ chunks[Len(chunks)].text.level = "paragraph"

TenTokenScenario ==
    /\ pc = "done"
    /\ text = TenTokenText
    /\ ctor_args.chunk_size = 1000

\* C7 as stated: three paragraphs of 10 tokens, chunk_size = 1000: two
\* chunks, paragraphs 1 and 2, then paragraph 3 alone.
C7_CapScenario ==
    TenTokenScenario =>
        /\ Len(chunks) = 2
        /\ chunks[1].text.parts = SubSeq(TenTokenText, 1, 2)
        /\ chunks[2].text.parts = SubSeq(TenTokenText, 3, 3)

\* C7 amended: two chunks, paragraphs 1 and 2, then paragraph 3: alone when
\* chunk_overlap is below the 10 tokens of paragraph 2, and after paragraph
\* 2, carried over as overlap, when chunk_overlap is 10 or more.
C7_CapScenarioWithOverlap ==
    TenTokenScenario =>
        /\ Len(chunks) = 2
        /\ chunks[1].text.parts = SubSeq(TenTokenText, 1, 2)
        /\ chunks[2].text.parts =
               IF chunker.chunk_overlap >= 10
               THEN SubSeq(TenTokenText, 2, 3)
               ELSE SubSeq(TenTokenText, 3, 3)
        /\ chunks[2].text.carry = (IF chunker.chunk_overlap >= 10 THEN 1 ELSE 0)

C7_Witness ==
    /\ TenTokenScenario
    /\ chunker.chunk_overlap = DefaultChunkOverlap
    /\ Len(chunks) = 2

----------------------------------------------------------------------------
(* Properties of the retriever and the vector store *)

IndexSucceeded(l) == l.op = "index_paper" /\ l.outcome = "ok"

\* the records of paper s are one per chunk of a fresh chunking of its
\* current text: same number, same texts, same indices, no id twice
MatchesFreshChunking(st, pp, s) ==
    LET recs  == CollectionGet(st, PaperFilter(s))
        fresh == chunk_text(chunker, pp[s].full_text, IndexMetadata(s, pp[s]))
    IN /\ Cardinality(recs) = Len(fresh)
       /\ Cardinality({r.id : r \in recs}) = Cardinality(recs)
       /\ \A i \in 1..Len(fresh) :
              \E r \in recs : /\ r.metadata["chunk_index"] = fresh[i].index
                              /\ r.document = fresh[i].text
                              /\ r.id = ChunkId(s, fresh[i].index)

EmbeddingFailed(l) ==
    /\ l.op = "index_paper"
    /\ l.outcome = "VectorStoreError"
    /\ "embed" \in {l.steps[i] : i \in 1..Len(l.steps)}

\* C3: an index_paper call whose batch embedding fails has deleted no
\* record and inserted none.
C3_FailedEmbeddingLeavesStore ==
    EmbeddingFailed(last) => last.deleted = 0 /\ last.inserted = 0

Position(steps, name) == CHOOSE i \in 1..Len(steps) : steps[i] = name
Took(steps, name) == \E i \in 1..Len(steps) : steps[i] = name

\* C4: an index_paper call on an indexed paper deletes the existing chunks
\* only after chunking and batch embedding have completed: fetch, chunk,
\* embed, delete, insert.
C4_DeleteAfterEmbed ==
    (last.op = "index_paper" /\ Took(last.steps, "delete")) =>
        /\ Took(last.steps, "chunk")
        /\ Took(last.steps, "embed")
        /\ Position(last.steps, "chunk") < Position(last.steps, "delete")
        /\ Position(last.steps, "embed") < Position(last.steps, "delete")

Min(a, b) == IF a < b THEN a ELSE b

\* C8: search_by_paper(A, n) returns at most min(n, records stored for A)
\* results, each with paper_id = A in its metadata and an id of paper A.
C8_ScopedSearch ==
    last.op = "search_by_paper" =>
        /\ Len(last.results)
               <= Min(last.n_results, get_paper_chunk_count(store, last.paper_id))
        /\ \A i \in 1..Len(last.results) :
               /\ last.results[i].metadata["paper_id"] = last.paper_id
               /\ last.results[i].id[2] = last.paper_id
               /\ last.results[i] \in store

\* two papers indexed, a search in one of them that asks for more results
\* than it could return from the other
C8_Witness ==
    /\ last.op = "search_by_paper"
    /\ Len(last.results) = 1
    /\ last.n_results = 2
    /\ \E r \in store : r.metadata["paper_id"] # last.paper_id

\* C9: every record stored under the id of paper s and chunk i carries
\* paper_id = s and chunk_index = i in its metadata, so the filter on
\* paper_id = s finds exactly the records whose id names s.
C9_RecordCarriesSource ==
    \A r \in store :
        /\ "paper_id" \in DOMAIN r.metadata
        /\ r.metadata["paper_id"] = r.id[2]
        /\ "chunk_index" \in DOMAIN r.metadata
        /\ r.metadata["chunk_index"] = r.id[4]

\* C10: every record of the vector store belongs to a paper that exists.
C10_NoOrphanRecords ==
    \A r \in store : papers[r.metadata["paper_id"]].exists

\* C11: index_paper on a paper whose full_text is the empty string raises
\* ValueError right after fetching the paper: it counts, deletes, chunks,
\* embeds and inserts nothing and no record is stored for the call.
C11_EmptyTextFailsFast ==
    (last.op = "index_paper" /\ papers[last.paper_id].exists
        /\ papers[last.paper_id].full_text = <<>>) =>
            /\ last.outcome = "ValueError"
            /\ last.steps = <<"fetch">>
            /\ last.returned = 0
            /\ last.deleted = 0 /\ last.inserted = 0

\* index_paper has failed on a paper without text while the collection
\* holds the chunks of another paper
C11_Witness ==
    /\ last.op = "index_paper"
    /\ papers[last.paper_id].exists
    /\ papers[last.paper_id].full_text = <<>>
    /\ last.outcome = "ValueError"
    /\ store # {}

----------------------------------------------------------------------------
(* Properties of VectorStore called directly *)

\* C12: every add_documents call with len(texts) # len(metadatas), either
\* list being possibly empty, ends in an error, adds no record and makes no
\* embedding call.
C12_LengthMismatchFails ==
    (last.op = "add_documents" /\ last.texts # last.metadatas) =>
        /\ last.outcome # "ok"
        /\ last.inserted = 0
        /\ ~last.embed_called

IndexOperations ==
    {"add_documents", "search", "get_context_for_query", "delete_paper_chunks",
     "count", "reset"}

\* C13: every operation of VectorStore during which the collection fails
\* ends in VectorStoreError, whichever operation it is.
C13_IndexFailureIsVectorStoreError ==
    (last.op \in IndexOperations /\ last.index_failed) =>
        last.outcome = "VectorStoreError"

\* the records whose paper_id is s
RecordsOf(st, s) ==
    {r \in st : "paper_id" \in DOMAIN r.metadata /\ r.metadata["paper_id"] = s}

\* C16: a delete_paper_chunks(s) call during which the collection does not
\* fail raises nothing and removes the records whose paper_id is s and no
\* other record: none of s is left, the records of every other paper are
\* as they were, and with no record of s the collection is as it was.
C16_DeleteRemovesAllAndOnly ==
    [][ (last'.op = "delete_paper_chunks" /\ ~last'.index_failed) =>
          /\ last'.outcome = "ok"
          /\ store' = store \ RecordsOf(store, last'.paper_id)
          /\ get_paper_chunk_count(store', last'.paper_id) = 0
          /\ \A p \in PaperIds \ {last'.paper_id} :
                 RecordsOf(store', p) = RecordsOf(store, p)
          /\ (RecordsOf(store, last'.paper_id) = {} => store' = store) ]_vars

\* records of one paper deleted while records of another paper stay
C16_Witness ==
    /\ last.op = "delete_paper_chunks"
    /\ last.outcome = "ok"
    /\ last.deleted >= 1
    /\ RecordsOf(store, last.paper_id) = {}
    /\ store # {}

\* C17: RAGRetriever.search returns one result per hit of the store's
\* search, in the order of the hits (nearest first), each with the id, text,
\* metadata and distance of its hit and relevance_score = 1 - distance,
\* whatever the distance; the hits are records of the collection, as many as
\* asked for or as there are.
C17_SearchKeepsHits ==
    (last.op = "search" /\ last.outcome = "ok") =>
        /\ Len(last.results) = Len(last.hits.ids)
        /\ Len(last.results)
               = Min(last.n_results,
                     IF Falsy(last.paper_id) THEN Cardinality(store)
                     ELSE get_paper_chunk_count(store, last.paper_id))
        /\ \A i \in 1..Len(last.results) :
               /\ last.results[i].id = last.hits.ids[i]
               /\ last.results[i].text = last.hits.documents[i]
               /\ last.results[i].metadata = last.hits.metadatas[i]
               /\ last.results[i].distance = last.hits.distances[i]
               /\ last.results[i].relevance_score = 1 - last.hits.distances[i]
               /\ \E r \in store : /\ r.id = last.results[i].id
                                    /\ r.document = last.results[i].text
                                    /\ r.metadata = last.results[i].metadata
        /\ \A i \in 1..(Len(last.results) - 1) :
               /\ last.results[i].distance <= last.results[i + 1].distance
               /\ last.results[i].id # last.results[i + 1].id

\* a search with two results, the second with a distance above 1 and so a
\* relevance below 0
C17_Witness ==
    /\ last.op = "search"
    /\ last.outcome = "ok"
    /\ Len(last.results) = 2
    /\ last.results[1].relevance_score = 0
    /\ last.results[2].relevance_score = -1

\* C18: get_context_for_query gives one part per hit, in the order of the
\* hits, each part being the header "[Source {paper_id}: {title}]", a
\* newline, the text of the hit and a newline, the parts joined by
\* "\n---\n"; with no hit it gives the empty string.
C18_ContextFormat ==
    (last.op = "get_context_for_query" /\ last.outcome = "ok") =>
        /\ last.context.sep = "\n---\n"
        /\ Len(last.context.parts) = Len(last.hits.ids)
        /\ \A i \in 1..Len(last.context.parts) :
               /\ last.context.parts[i].label = "Source"
               /\ last.context.parts[i].paper_id
                      = Get(last.hits.metadatas[i], "paper_id", Unknown)
               /\ last.context.parts[i].title
                      = Get(last.hits.metadatas[i], "title", Unknown)
               /\ last.context.parts[i].text = last.hits.documents[i]
               /\ last.context.parts[i].lines = <<"header", "\n", "text", "\n">>
        /\ (last.hits.ids = <<>> => last.context = EmptyString)

----------------------------------------------------------------------------
(* Properties of EmbeddingGenerator *)

EmbedOperations == {"embed_batch", "embed_text", "embed_query"}

\* C14: with either backend, an embed_batch (of a list that is not empty),
\* embed_text or embed_query call whose backend call fails raises
\* EmbeddingError and returns nothing, no empty list or vector in its place.
C14_BackendFailureRaises ==
    (last.op \in EmbedOperations /\ last.texts # <<>> /\ ~last.backend_ok) =>
        /\ last.result.outcome = "EmbeddingError"
        /\ ~last.result.returned
        /\ last.result.backend_calls = 1

\* embed_query of the openai generator has failed in the backend
C14_Witness ==
    /\ last.op = "embed_query"
    /\ embedder.provider = "openai"
    /\ ~last.backend_ok
    /\ last.result.outcome = "EmbeddingError"

\* C15: embed_batch returns as many vectors as it was given texts, vector i
\* being the one the backend made of text i; for the empty list it returns
\* the empty list and does not call the backend.
C15_BatchOrderAndLength ==
    last.op = "embed_batch" =>
        /\ last.result.returned =>
               /\ Len(last.result.value) = Len(last.texts)
               /\ \A i \in 1..Len(last.texts) :
                      /\ last.result.value[i].of = last.texts[i]
                      /\ last.result.value[i].by = embedder.provider
        /\ last.texts = <<>> =>
               /\ last.result.returned
               /\ last.result.value = <<>>
               /\ last.result.backend_calls = 0

\* a batch of three texts, the first of them again in third place
C15_Witness ==
    /\ last.op = "embed_batch"
    /\ last.result.returned
    /\ Len(last.texts) = 3
    /\ last.texts[1] = last.texts[3]
    /\ last.texts[1] # last.texts[2]
    /\ Len(last.result.value) = 3

----------------------------------------------------------------------------
(* Properties of index_all_papers *)

CallsWith(calls, outcomes) ==
    {i \in 1..Len(calls) : calls[i].outcome \in outcomes}

\* C19: index_all_papers returns its report whatever index_paper calls fail:
\* every paper of the table is taken once, indexed + failed = total, the
\* papers without text and those whose index_paper raised are the failed
\* ones, and total_chunks is the sum of what the index_paper calls that
\* succeeded returned.
C19_IndexAllNeverAborts ==
    last.op = "index_all_papers" =>
        /\ last.outcome = "ok"
        /\ [i \in 1..Len(last.calls) |-> last.calls[i].paper_id] = AllPapers(papers)
        /\ last.report.total = Cardinality({p \in PaperIds : papers[p].exists})
        /\ last.report.indexed + last.report.failed = last.report.total
        /\ \A i \in 1..Len(last.calls) :
               papers[last.calls[i].paper_id].full_text = <<>>
                   => last.calls[i].outcome # "ok"
        /\ last.report.indexed = Cardinality(CallsWith(last.calls, {"ok"}))
        /\ last.report.failed
               = Cardinality(CallsWith(last.calls,
                                       {"skipped", "ValueError", "VectorStoreError"}))
        /\ last.report.total_chunks
               = SumSeq([i \in 1..Len(last.calls) |->
                            IF last.calls[i].outcome = "ok"
                            THEN last.calls[i].returned ELSE 0])

\* two papers with text, the first fails in the embedding, the second is
\* indexed after it
C19_Witness ==
    /\ last.op = "index_all_papers"
    /\ Len(last.calls) = 2
    /\ last.calls[1].outcome = "VectorStoreError"
    /\ last.calls[2].outcome = "ok"
    /\ last.report.total_chunks >= 1

----------------------------------------------------------------------------
(* Properties of index_paper calls under way at once *)

\* the collection after index_paper(first) and then index_paper(second),
\* each run from its first step to its last without the other in between
OneAfterTheOther(st, first, second) ==
    index_paper(index_paper(st, papers, chunker, first.paper_id, first.embed_ok).store,
                papers, chunker, second.paper_id, second.embed_ok).store

BothDone == callers # NoCallers /\ \A c \in Callers : callers[c].pc = "done"

\* C20: when two index_paper calls for different papers have run with their
\* steps interleaved, the collection is what it is after the two calls run
\* one after the other, in either order, each call ends as it does when run
\* alone, and at no point has a call removed or added a record of a paper
\* other than its own.
C20_DistinctPapersIndependent ==
    callers # NoCallers =>
        /\ \A c \in Callers : callers[c].touched \subseteq {callers[c].paper_id}
        /\ BothDone =>
               /\ store = OneAfterTheOther(last.before, callers[1], callers[2])
               /\ store = OneAfterTheOther(last.before, callers[2], callers[1])
               /\ \A c \in Callers :
                      LET alone == index_paper(last.before, papers, chunker,
                                               callers[c].paper_id, callers[c].embed_ok).log
                      IN /\ callers[c].outcome = alone.outcome
                         /\ callers[c].returned = alone.returned

\* both calls have replaced chunks their papers had before, one of them
\* leaving fewer records than it found
C20_Witness ==
    /\ BothDone
    /\ \A c \in Callers : callers[c].outcome = "ok" /\ callers[c].existing_count > 0
    /\ \E c \in Callers : callers[c].returned < callers[c].existing_count

----------------------------------------------------------------------------
(* Properties of the configuration *)

\* a key that is set and is not the empty string
Configured(key) == key # None /\ key # 0

\* C21: get_embedding_provider returns "voyage" whenever a Voyage key is
\* configured, an OpenAI key being configured or not, "openai" exactly when
\* only an OpenAI key is configured, and raises ValueError when neither is.
C21_ProviderByKeys ==
    last.op = "get_embedding_provider" =>
        /\ Configured(config.voyage_api_key) =>
               last.result.returned /\ last.result.value = "voyage"
        /\ (last.result.returned /\ last.result.value = "openai")
               <=> (~Configured(config.voyage_api_key) /\ Configured(config.openai_api_key))
        /\ (~Configured(config.voyage_api_key) /\ ~Configured(config.openai_api_key))
               => (~last.result.returned /\ last.result.outcome = "ValueError")

\* both keys are configured and the provider has been asked for
C21_Witness ==
    /\ last.op = "get_embedding_provider"
    /\ Configured(config.voyage_api_key)
    /\ Configured(config.openai_api_key)
    /\ last.result.value = "voyage"

----------------------------------------------------------------------------
(* Properties of parse_metadata *)

\* the title the PDF metadata yield, None when they yield none
PdfTitle(pdf_metadata) == Or(Get(pdf_metadata, "title", None), None)

\* C22: when the text and the PDF metadata both yield a title, the title
\* of the result is the one of the text; the title of the PDF metadata is
\* the result only when the text yields none.
C22_TextTitlePreferred ==
    last.op = "parse_metadata" =>
        /\ extract_title(last.text) # None
               => last.result.title = extract_title(last.text)
        /\ (extract_title(last.text) = None /\ ~Falsy(PdfTitle(last.pdf_metadata)))
               => last.result.title = PdfTitle(last.pdf_metadata)

----------------------------------------------------------------------------
(* Properties of the overlap and of the paragraph cap of chunk_text *)

ParagraphTokens(p) == _count_tokens(ParaText(p))

\* chunk i + 1 was opened by the flush of chunk i at lines 79-85: both are
\* built from paragraphs (an oversized paragraph leaves sub-chunks between)
OpenedByFlush(i) ==
    /\ chunks[i].text.level = "paragraph"
    /\ chunks[i + 1].text.level = "paragraph"

\* lines 87-97 as a condition on the closed chunk and the next paragraph
SeedAllowed(closed, next_paragraph) ==
    /\ chunker.chunk_overlap > 0
    /\ ParagraphTokens(Last(closed.text.parts)) <= chunker.chunk_overlap
    /\ ParagraphTokens(Last(closed.text.parts)) + ParagraphTokens(next_paragraph)
           <= chunker.chunk_size

\* C23: a chunk opened by a flush for the token budget or the paragraph cap
\* starts with the last paragraph of the chunk just closed exactly when
\* chunk_overlap > 0, that paragraph has at most chunk_overlap tokens and it
\* fits in chunk_size with the next paragraph; otherwise it starts empty.
\* So consecutive chunks share at most one paragraph, of at most
\* chunk_overlap tokens, and the first chunk and the sub-chunks share none.
C23_OverlapSeeding ==
    pc = "done" =>
        /\ \A i \in 1..Len(chunks) : chunks[i].text.carry \in {0, 1}
        /\ Len(chunks) > 0 => chunks[1].text.carry = 0
        /\ \A i \in 1..(Len(chunks) - 1) :
              LET closed == chunks[i]
                  opened == chunks[i + 1]
              IN IF OpenedByFlush(i)
                 THEN /\ opened.text.carry = 1
                         <=> SeedAllowed(closed, FreshParts(opened)[1])
                      /\ opened.text.carry = 1 =>
                            /\ opened.text.parts[1] = Last(closed.text.parts)
                            /\ ParagraphTokens(opened.text.parts[1])
                                   <= chunker.chunk_overlap
                 ELSE opened.text.carry = 0

\* a chunk closed over its budget, the next one opened with its last
\* paragraph, which has exactly chunk_overlap tokens
C23_Witness ==
    /\ pc = "done"
    /\ Len(chunks) = 2
    /\ OpenedByFlush(1)
    /\ chunks[1].token_count + ParagraphTokens(FreshParts(chunks[2])[1])
           > chunker.chunk_size
    /\ chunks[2].text.carry = 1
    /\ ParagraphTokens(chunks[2].text.parts[1]) = chunker.chunk_overlap

\* C25: a chunk built by accumulating paragraphs holds at most
\* max_paragraphs = 2 paragraphs, the carried-over one counted, whatever
\* the text, chunk_size and chunk_overlap.
C25_ParagraphCap ==
    pc = "done" =>
        \A i \in 1..Len(chunks) :
            chunks[i].text.level = "paragraph" =>
                Len(chunks[i].text.parts) <= max_paragraphs

\* the cap, not the budget, closes the chunks: three paragraphs that fit in
\* one chunk_size together, the second chunk opened with a carried one
C25_Witness ==
    /\ pc = "done"
    /\ Len(_split_into_paragraphs(text)) = 3
    /\ SumSeq(WordsOfParts(_split_into_paragraphs(text))) + 2 <= chunker.chunk_size
    /\ Len(chunks) = 2
    /\ Len(chunks[1].text.parts) = max_paragraphs
    /\ Len(chunks[2].text.parts) = max_paragraphs
    /\ chunks[2].text.carry = 1

----------------------------------------------------------------------------
(* Properties of the oversized paragraphs of chunk_text *)

SubChunk(c) == c.text.level \in {"sentence", "word"}

\* the words first emitted by chunks 1..j, and all the words of chunks j+1..j2
FreshWordsUpTo(j) ==
    WordsOfParts(Flatten([i \in 1..j |-> FreshParts(chunks[i])]))
WordsBetween(j, j2) ==
    WordsOfParts(Flatten([i \in 1..(j2 - j) |-> chunks[j + i].text.parts]))

\* two sub-chunks that follow each other were closed for the budget: the
\* first unit of the second one did not fit into the first one
ClosedForBudget(c, d) ==
    c.token_count + SumSeq(WordsOfParagraph(d.text.parts[1])) > chunker.chunk_size

OversizedSentences(p) ==
    Cardinality({n \in 1..Len(p) : Oversized(<<p[n]>>)})

\* chunks j+1..j2 are the sub-chunks of the oversized paragraph ps[k]
SubChunksOf(ps, k, j, j2) ==
    /\ FreshWordsUpTo(j) = WordsOfParts(SubSeq(ps, 1, k - 1))
    /\ (k > 1 /\ ~Oversized(ps[k - 1])) =>
          /\ j > 0
          /\ chunks[j].text.level = "paragraph"
          /\ Last(chunks[j].text.parts) = ps[k - 1]
    /\ WordsBetween(j, j2) = WordsOfParagraph(ps[k])
    /\ \A m \in (j + 1)..j2 :
          /\ SubChunk(chunks[m])
          /\ chunks[m].text.carry = 0
          /\ \/ chunks[m].token_count <= chunker.chunk_size
             \/ LoneOversizedWord(chunks[m])
    /\ \A m \in (j + 1)..(j2 - 1) :
          /\ (chunks[m].text.level = "sentence" /\ chunks[m + 1].text.level = "sentence")
                => ClosedForBudget(chunks[m], chunks[m + 1])
          /\ ( /\ chunks[m].text.level = "word"
               /\ chunks[m + 1].text.level = "word"
               /\ OversizedSentences(ps[k]) = 1 )
                => ClosedForBudget(chunks[m], chunks[m + 1])
    /\ (j2 < Len(chunks) /\ k < Len(ps) /\ ~Oversized(ps[k + 1])) =>
          /\ chunks[j2 + 1].text.level = "paragraph"
          /\ chunks[j2 + 1].text.carry = 0
          /\ chunks[j2 + 1].text.parts[1] = ps[k + 1]

\* C24: for a paragraph of more than chunk_size tokens the pending buffer is
\* emitted first as a chunk of its own, then the paragraph as sub-chunks
\* packed up to chunk_size by sentence and, for an oversized sentence, by
\* word; the sub-chunks hold the words of that paragraph and nothing else,
\* none is seeded with overlap, and the paragraph after it opens a chunk
\* with nothing carried over.
C24_OversizedParagraph ==
    pc = "done" =>
        LET ps == _split_into_paragraphs(text) IN
        \A k \in 1..Len(ps) :
            Oversized(ps[k]) =>
                \E j \in 0..Len(chunks), j2 \in 1..Len(chunks) :
                    j < j2 /\ SubChunksOf(ps, k, j, j2)

\* a paragraph that fits, an oversized one emitted as sentence and word
\* sub-chunks, and a paragraph that fits, with an overlap that would admit
\* the first paragraph
C24_Witness ==
    /\ pc = "done"
    /\ LET ps == _split_into_paragraphs(text) IN
         /\ Len(ps) = 3
         /\ ~Oversized(ps[1]) /\ Oversized(ps[2]) /\ ~Oversized(ps[3])
         /\ ParagraphTokens(ps[1]) <= chunker.chunk_overlap
         /\ chunks[1].text.parts = <<ps[1]>>
         /\ chunks[Len(chunks)].text.parts = <<ps[3]>>
    /\ \E i \in 1..Len(chunks) : chunks[i].text.level = "sentence"
    /\ \E i \in 1..Len(chunks) : chunks[i].text.level = "word"

----------------------------------------------------------------------------
(* Properties of the TextChunker constructor *)

\* C30: a chunk_overlap given to the constructor is the one the chunker
\* uses, the configured one being used only when the argument is omitted;
\* with chunk_overlap = 0 no chunk starts with a carried-over paragraph,
\* whatever the configuration holds.
C30_ExplicitOverlapUsed ==
    pc = "done" =>
        /\ ctor_args.chunk_overlap # None =>
              chunker.chunk_overlap = ctor_args.chunk_overlap
        /\ ctor_args.chunk_overlap = None =>
              chunker.chunk_overlap = config.chunk_overlap
        /\ ctor_args.chunk_overlap = 0 =>
              \A i \in 1..Len(chunks) : chunks[i].text.carry = 0

----------------------------------------------------------------------------
(* Properties of index_paper on a text without chunks *)

\* C29: an index_paper call that returns normally returns the number of
\* chunks the paper has in the resulting store, which is at least 1; no
\* call deletes the chunks of a paper and returns 0.
C29_IndexedPaperHasChunks ==
    IndexSucceeded(last) =>
        /\ last.returned = get_paper_chunk_count(store, last.paper_id)
        /\ last.returned >= 1
        /\ ~(last.deleted > 0 /\ last.returned = 0)

----------------------------------------------------------------------------
(* Properties of the ids add_documents generates *)

\* C27: the ids add_documents generates are not ids of records already in
\* the collection, whatever add_documents (without ids), add_paper_chunks
\* and delete_paper_chunks calls came before: every id it returns is the id
\* of a record the call added, none being rejected for an existing record.
C27_GeneratedIdsFresh ==
    (last.op = "add_documents" /\ last.generated /\ last.outcome = "ok") =>
        /\ last.inserted = Len(last.ids)
        /\ \A i, j \in 1..Len(last.ids) : last.ids[i] = last.ids[j] => i = j

----------------------------------------------------------------------------
(* Properties of the scope of the retriever's searches *)

RetrieverReads == {"search", "get_context_for_query"}

\* C28: a search or get_context_for_query call given an integer paper_id
\* searches the records of that paper only, so every hit carries that
\* paper_id; the whole collection is searched only when none is given.
C28_RetrieverScope ==
    (last.op \in RetrieverReads /\ last.outcome = "ok" /\ last.paper_id # None) =>
        \A i \in 1..Len(last.hits.ids) :
            /\ "paper_id" \in DOMAIN last.hits.metadatas[i]
            /\ last.hits.metadatas[i]["paper_id"] = last.paper_id

----------------------------------------------------------------------------
(* Properties of the context read back *)

\* C26: _extract_sources applied to the context get_context_for_query
\* writes returns one source for every hit, in the order of the hits, with
\* the paper_id and the title of the hit, whatever the titles and the
\* texts of the hits.
C26_ContextRoundTrip ==
    last.op = "extract_sources" =>
        last.sources =
            [i \in 1..Len(last.results) |->
                [paper_id |-> last.results[i].metadata["paper_id"],
                 title |-> last.results[i].metadata["title"]]]

====
